---------------------------- MODULE Spec2Model ----------------------------
(***************************************************************************)
(* A model of nimi-basics: ResistanceManager (one channel of an NI PXI-2722 *)
(* resistor card), its SubsetSum helper, and the connect/disconnect         *)
(* wrappers of SwitchManager.                                               *)
(*                                                                          *)
(* Numbers.  The code computes with Python floats.  Every magnitude the     *)
(* code handles here is a dyadic rational far inside the exact range of a   *)
(* double, so the model uses integers:                                      *)
(*   - catalog values, quantized targets and sums are counted in quarter    *)
(*     ohms (0.25 ohm = 1, 8192 ohm = 32768);                               *)
(*   - a requested resistance is counted in units of 1/(4*SubSteps) ohm, so *)
(*     that requests between two quarter-ohm steps, and exactly halfway     *)
(*     between them, exist.                                                 *)
(*                                                                          *)
(* Channel names are opaque to the code; a name is modelled as the pair     *)
(* <<bank number, position in the bank's list>>.                            *)
(*                                                                          *)
(* Python indexes from 0 and TLA+ from 1: an index variable keeps Python's  *)
(* value and a sequence is read at index + 1.                               *)
(***************************************************************************)
EXTENDS Integers, Sequences, FiniteSets, TLC

VARIABLES
    \* ---- SubsetSum.get_banks_to_leave_open, one call (SpecSolve)
    v_list,         \* the values handed to the solver
    target,         \* the target handed to the solver
    pcS,            \* "call" | "loop" | "ret"
    i,              \* g's loop index
    target_Sum,     \* g's remaining target
    subset,         \* g's subset list
    memo,           \* the dict of get_banks_to_leave_open
    result,         \* the returned pair <<sum, values>>
    \* ---- ResistanceManager.get_banks_to_close_by_name, one call (SpecPlan)
    resistance,     \* the argument, in units of 1/(4*SubSteps) ohm
    pcP,            \* "call" | "solved" | "ret"
    quantized,      \* resistance after line 74, in quarter ohms
    values,         \* the solver's pair <<sum, values>>
    retConnections, \* the returned list
    raised,         \* the exception the call ended with, "none" when it returned
    \* ---- ResistanceManager.setResistance / clearWholeChannel, and the
    \* ---- SwitchManager wrappers, over the Topology Service (SpecChannel)
    relays,         \* pairs of the resistor card with an existing path
    matrix,         \* <<row, col>> pairs of the switch matrix with a path
    pcC,            \* "idle" | "clearing" | "planning" | "applying" | "done"
    op,             \* the method running: "setResistance" | "clearWholeChannel"
    req,            \* setResistance's argument
    pos,            \* position in the clearing list, or in the plan
    plan,           \* the list get_banks_to_close_by_name returned
    calls,          \* what the running method asked of the Topology Service
    \* ---- two threads in get_banks_to_close_by_name (SpecThreads)
    connections,    \* self.connections of each manager instance
    tpc,            \* each thread's position
    tself,          \* the instance each thread calls
    targ,           \* each thread's argument
    ttodo,          \* each thread's pairs still to append
    tret,           \* each thread's retConnections
    \* ---- shared by SpecChannel and SpecThreads
    planCache       \* get_banks_to_close_by_name's list for each <<channel, request>>
                    \* of the specification, evaluated once in Init

solveVars   == <<v_list, target, pcS, i, target_Sum, subset, memo, result>>
planVars    == <<resistance, pcP, quantized, values, retConnections, raised>>
channelVars == <<relays, matrix, pcC, op, req, pos, plan, calls>>
threadVars  == <<connections, tpc, tself, targ, ttodo, tret>>
vars        == <<solveVars, planVars, channelVars, threadVars, planCache>>

(***************************************************************************)
(* Bounds of the model.                                                     *)
(***************************************************************************)
MaxLen    == 3    \* longest value list handed to the solver in SpecSolve
MaxVal    == 3    \* largest value in such a list
MaxTarget == 7    \* largest target in SpecSolve (the smallest is -1)
SubSteps  == 4    \* request points per quarter-ohm step
LowQuarters  == 12  \* SpecPlan requests every point from below 0 up to this many quarter ohms
HighQuarters == 4   \* ... and every point from this many quarter ohms below 16000 ohm to above it
MaxInitClosed == 1  \* SpecChannel starts with at most this many pairs closed, or with all
MatrixCols == 2     \* columns of the switch matrix in SpecChannel (it has one row)

(***************************************************************************)
(* Helpers over sequences.                                                  *)
(***************************************************************************)
RECURSIVE sum(_)
sum(s) == IF s = <<>> THEN 0 ELSE Head(s) + sum(Tail(s))

Range(s) == {s[k] : k \in DOMAIN s}

RECURSIVE SeqsUpTo(_, _)
SeqsUpTo(S, n) ==
    IF n = 0 THEN {<<>>}
    ELSE LET shorter == SeqsUpTo(S, n - 1)
         IN  shorter \cup {Append(s, x) : s \in shorter, x \in S}

(***************************************************************************)
(* SubsetSum.f: the number of subsets of v_list[i:] that sum to target_Sum, *)
(* memoized in memo under the key (i, target_Sum).  Python mutates the dict *)
(* in place; here f returns the count together with the dict it leaves.     *)
(***************************************************************************)
RECURSIVE f(_, _, _, _)
f(v, idx, t, m) ==
    IF idx >= Len(v)
    THEN [count |-> IF t = 0 THEN 1 ELSE 0, memo |-> m]
    ELSE IF <<idx, t>> \notin DOMAIN m
         THEN LET a == f(v, idx + 1, t, m)
                  b == f(v, idx + 1, t - v[idx + 1], a.memo)
                  count == a.count + b.count
              IN  [count |-> count, memo |-> (<<idx, t>> :> count) @@ b.memo]
         ELSE [count |-> m[<<idx, t>>], memo |-> m]

(***************************************************************************)
(* SubsetSum.f with the dict left out: what f returns when every entry of   *)
(* the dict is the value f stored for the same v_list (MemoSound below      *)
(* checks that the dict of one call holds nothing else).  The 16-value      *)
(* catalog gives the dict 2^15 entries, so the specifications over the      *)
(* catalog use this form.                                                   *)
(***************************************************************************)
RECURSIVE fCountAtLeast(_, _, _)
fCountAtLeast(v, idx, t) ==
    IF idx >= Len(v)
    THEN IF t >= 0 THEN 1 ELSE 0
    ELSE fCountAtLeast(v, idx + 1, t) + fCountAtLeast(v, idx + 1, t - v[idx + 1])

RECURSIVE fCount(_, _, _)
fCount(v, idx, t) ==
    IF idx >= Len(v)
    THEN IF t = 0 THEN 1 ELSE 0
    ELSE fCount(v, idx + 1, t) + fCount(v, idx + 1, t - v[idx + 1])

(***************************************************************************)
(* One iteration of the loop of SubsetSum.g (w_list is v_list at its only   *)
(* call site, so id_subset equals subset and is not modelled).              *)
(***************************************************************************)
gIterOffByOne(v, idx, t, sub, m) ==
    LET x == v[idx + 1]
        r == f(v, idx, t - x, m)
    IN  IF r.count > 0
        THEN [subset |-> Append(sub, x), target_Sum |-> t - x, memo |-> r.memo]
        ELSE [subset |-> sub, target_Sum |-> t, memo |-> r.memo]

gIter(v, idx, t, sub, m) ==
    LET x == v[idx + 1]
        r == f(v, idx + 1, t - x, m)
    IN  IF r.count > 0
        THEN [subset |-> Append(sub, x), target_Sum |-> t - x, memo |-> r.memo]
        ELSE [subset |-> sub, target_Sum |-> t, memo |-> r.memo]

(***************************************************************************)
(* SubsetSum.g and SubsetSum.get_banks_to_leave_open as one evaluation,     *)
(* with f's dict left out (SolveAgrees below checks, on short lists, that   *)
(* the step-by-step call with the dict returns the same pair).              *)
(***************************************************************************)
RECURSIVE gKeepsTarget(_, _, _, _)
gKeepsTarget(v, idx, t, sub) ==
    IF idx >= Len(v) THEN sub
    ELSE IF fCount(v, idx + 1, t - v[idx + 1]) > 0
         THEN gKeepsTarget(v, idx + 1, t, Append(sub, v[idx + 1]))
         ELSE gKeepsTarget(v, idx + 1, t, sub)

RECURSIVE g(_, _, _, _)
g(v, idx, t, sub) ==
    IF idx >= Len(v) THEN sub
    ELSE IF fCount(v, idx + 1, t - v[idx + 1]) > 0
         THEN g(v, idx + 1, t - v[idx + 1], Append(sub, v[idx + 1]))
         ELSE g(v, idx + 1, t, sub)

get_banks_to_leave_open(x_list, t) ==
    LET res == g(x_list, 0, t, <<>>)
    IN  <<sum(res), res>>

(***************************************************************************)
(* ResistanceManager.  The two value lists of get_banks_to_close_by_name,   *)
(* in quarter ohms.                                                         *)
(***************************************************************************)
even_bank == <<1, 2, 4, 8, 16, 32, 64, 128>>
odd_bank  == <<256, 512, 1024, 2048, 4096, 8192, 16384, 32768>>

MaxOhms == 16000

\* the channel of the manager (the default of __init__)
channel == 0

\* a resistance in ohms, in the unit of the argument
Ohms(n) == n * 4 * SubSteps

\* the guard of line 72
InRange(r) == r >= 0 /\ r <= Ohms(MaxOhms)

\* Python 3's round(num / den): to the nearest integer, a tie to the even one
roundHalfUp(num, den) ==
    LET q == num \div den
        rem == num % den
    IN  IF 2 * rem < den THEN q ELSE q + 1

round(num, den) ==
    LET q == num \div den
        rem == num % den
    IN  IF 2 * rem < den THEN q
        ELSE IF 2 * rem > den THEN q + 1
        ELSE IF q % 2 = 0 THEN q ELSE q + 1

\* line 74: round(resistance*4)/4; the result is counted in quarter ohms
QuantizeHalfUp(r) == roundHalfUp(r, SubSteps)

Quantize(r) == round(r, SubSteps)

\* getChannels (lines 30-53): the names of the two banks of a channel, as the
\* code assumes the card lists them: the bank itself, its engage relay, then
\* the relays of its eight resistors in the order of the value lists
bank(n) == [k \in 1..10 |-> <<n, k - 1>>]

getChannels(c) == <<bank(c * 2), bank(c * 2 + 1)>>

\* iteration over a Python set of numbers; the order is the implementation's,
\* taken here as ascending (nothing below depends on it)
RECURSIVE SetToSeq(_)
SetToSeq(S) ==
    IF S = {} THEN <<>>
    ELSE LET m == CHOOSE x \in S : \A y \in S : x <= y
         IN  <<m>> \o SetToSeq(S \ {m})

\* lines 97-115
bank0_dict(bank_a) ==
    (1 :> bank_a[3]) @@ (2 :> bank_a[4]) @@ (4 :> bank_a[5]) @@ (8 :> bank_a[6])
    @@ (16 :> bank_a[7]) @@ (32 :> bank_a[8]) @@ (64 :> bank_a[9])
    @@ (128 :> bank_a[10])

bank1_dict(bank_b) ==
    (256 :> bank_b[3]) @@ (512 :> bank_b[4]) @@ (1024 :> bank_b[5])
    @@ (2048 :> bank_b[6]) @@ (4096 :> bank_b[7]) @@ (8192 :> bank_b[8])
    @@ (16384 :> bank_b[9]) @@ (32768 :> bank_b[10])

\* lines 120-122: the three pairs appended first
FixedPairs(bank_a, bank_b) ==
    << <<bank_a[1], bank_a[2]>>, <<bank_b[1], bank_b[2]>>, <<bank_a[1], bank_b[1]>> >>

\* lines 88-89 and 123-127: the pairs appended for the values not returned
BypassPairsOfActive(bank_a, bank_b, vals) ==
    LET bank0_close == Range(even_bank) \cap Range(vals)
        bank1_close == Range(odd_bank) \cap Range(vals)
        s0 == SetToSeq(bank0_close)
        s1 == SetToSeq(bank1_close)
    IN  [k \in 1..Len(s0) |-> <<bank_a[1], bank0_dict(bank_a)[s0[k]]>>]
        \o [k \in 1..Len(s1) |-> <<bank_b[1], bank1_dict(bank_b)[s1[k]]>>]

BypassPairs(bank_a, bank_b, vals) ==
    LET bank0_close == Range(even_bank) \ Range(vals)
        bank1_close == Range(odd_bank) \ Range(vals)
        s0 == SetToSeq(bank0_close)
        s1 == SetToSeq(bank1_close)
    IN  [k \in 1..Len(s0) |-> <<bank_a[1], bank0_dict(bank_a)[s0[k]]>>]
        \o [k \in 1..Len(s1) |-> <<bank_b[1], bank1_dict(bank_b)[s1[k]]>>]

\* lines 88-129: the list built from the solver's values
Encode(bank_a, bank_b, vals) ==
    FixedPairs(bank_a, bank_b) \o BypassPairs(bank_a, bank_b, vals)

\* get_banks_to_close_by_name as one evaluation (lines 67-135)
get_banks_to_close_by_nameUnchecked(c, r) ==
    LET banks == getChannels(c)
        res == get_banks_to_leave_open(even_bank \o odd_bank, Quantize(r))
    IN  Encode(banks[1], banks[2], res[2])

get_banks_to_close_by_name(c, r) ==
    IF InRange(r)
    THEN LET banks == getChannels(c)
             res == get_banks_to_leave_open(even_bank \o odd_bank, Quantize(r))
         IN  Encode(banks[1], banks[2], res[2])
    ELSE <<>>

(***************************************************************************)
(* SpecSolve: one call of SubsetSum.get_banks_to_leave_open(x_list, target) *)
(* on any short list of small positive values.                              *)
(***************************************************************************)
EmptyDict == [k \in {} |-> 0]

SolveOff ==
    /\ v_list = <<>> /\ target = 0 /\ pcS = "off" /\ i = 0
    /\ target_Sum = 0 /\ subset = <<>> /\ memo = EmptyDict /\ result = <<>>

PlanOff ==
    /\ resistance = 0 /\ pcP = "off" /\ quantized = 0
    /\ values = <<>> /\ retConnections = <<>> /\ raised = "none"

ChannelOff ==
    /\ relays = {} /\ matrix = {} /\ pcC = "off" /\ op = "none"
    /\ req = 0 /\ pos = 0 /\ plan = <<>> /\ calls = <<>>

ThreadsOff ==
    /\ connections = <<>> /\ tpc = <<>> /\ tself = <<>>
    /\ targ = <<>> /\ ttodo = <<>> /\ tret = <<>>

InitSolve ==
    /\ v_list \in SeqsUpTo(1..MaxVal, MaxLen) \ {<<>>}
    /\ target \in -1..MaxTarget
    /\ pcS = "call"
    /\ i = 0 /\ target_Sum = 0 /\ subset = <<>>
    /\ memo = EmptyDict /\ result = <<>>
    /\ PlanOff /\ ChannelOff /\ ThreadsOff /\ planCache = <<>>

\* get_banks_to_leave_open, line 177, and the entry of g (lines 183-184)
SolveCall ==
    /\ pcS = "call"
    /\ memo' = EmptyDict
    /\ subset' = <<>>
    /\ target_Sum' = target
    /\ i' = 0
    /\ pcS' = "loop"
    /\ UNCHANGED <<v_list, target, result>>
    /\ UNCHANGED <<planVars, channelVars, threadVars, planCache>>

\* one iteration of g's loop (lines 185-190)
GLoop ==
    /\ pcS = "loop"
    /\ i < Len(v_list)
    /\ LET s == gIter(v_list, i, target_Sum, subset, memo)
       IN  /\ subset' = s.subset
           /\ target_Sum' = s.target_Sum
           /\ memo' = s.memo
    /\ i' = i + 1
    /\ UNCHANGED <<v_list, target, pcS, result>>
    /\ UNCHANGED <<planVars, channelVars, threadVars, planCache>>

\* g returns (line 191) and get_banks_to_leave_open returns (line 179)
SolveReturn ==
    /\ pcS = "loop"
    /\ i >= Len(v_list)
    /\ result' = <<sum(subset), subset>>
    /\ pcS' = "ret"
    /\ UNCHANGED <<v_list, target, i, target_Sum, subset, memo>>
    /\ UNCHANGED <<planVars, channelVars, threadVars, planCache>>

NextSolve == SolveCall \/ GLoop \/ SolveReturn

SpecSolve == InitSolve /\ [][NextSolve]_vars

(***************************************************************************)
(* The dict of one call holds, under (i, t), the number of subsets of       *)
(* v_list[i:] that sum to t: reading it gives what computing it gives.      *)
(***************************************************************************)
MemoSound ==
    \A k \in DOMAIN memo : memo[k] = fCount(v_list, k[1], k[2])

\* the call with the dict and the evaluation without it return the same pair
SolveAgrees ==
    pcS = "ret" => result = get_banks_to_leave_open(v_list, target)

(***************************************************************************)
(* SpecPlan: one call of get_banks_to_close_by_name(resistance) on the      *)
(* manager of channel 0.                                                    *)
(***************************************************************************)
Pow2[k \in 0..16] == IF k = 0 THEN 1 ELSE 2 * Pow2[k - 1]

MaxQuarters == MaxOhms * 4

\* the requests of SpecPlan: every point around 0 and around 16000 ohm, the
\* exact targets with one bit, with two bits, and with all low bits set (2^16
\* and 2^16 - 1 quarter ohms are out of range), 67 ohm, and a point just
\* above 10 ohm
PlanInputs ==
    (-SubSteps .. LowQuarters * SubSteps)
    \cup ((MaxQuarters - HighQuarters) * SubSteps .. (MaxQuarters + 1) * SubSteps)
    \cup {Pow2[k] * SubSteps : k \in 0..16}
    \cup {(Pow2[k] - 1) * SubSteps : k \in 0..16}
    \cup {(Pow2[j] + Pow2[k]) * SubSteps : j, k \in 0..15}
    \cup {Ohms(67), Ohms(10) + 1}

InitPlan ==
    /\ resistance \in PlanInputs
    /\ pcP = "call"
    /\ quantized = 0 /\ values = <<>> /\ retConnections = <<>>
    /\ raised = "none"
    /\ SolveOff /\ ChannelOff /\ ThreadsOff /\ planCache = <<>>

\* lines 71-86: in range, the argument is quantized and the solver called
PlanSolve ==
    /\ pcP = "call"
    /\ InRange(resistance)
    /\ quantized' = Quantize(resistance)
    /\ values' = get_banks_to_leave_open(even_bank \o odd_bank, quantized')
    /\ pcP' = "solved"
    /\ UNCHANGED <<resistance, retConnections, raised>>
    /\ UNCHANGED <<solveVars, channelVars, threadVars, planCache>>

\* lines 88-129 and 135: the list is built and returned
PlanEncode ==
    /\ pcP = "solved"
    /\ LET banks == getChannels(channel)
       IN  retConnections' = Encode(banks[1], banks[2], values[2])
    /\ pcP' = "ret"
    /\ UNCHANGED <<resistance, quantized, values, raised>>
    /\ UNCHANGED <<solveVars, channelVars, threadVars, planCache>>

\* lines 130-135: out of range, two log lines and the empty list is returned
PlanOutOfRange ==
    /\ pcP = "call"
    /\ ~InRange(resistance)
    /\ retConnections' = <<>>
    /\ pcP' = "ret"
    /\ UNCHANGED <<resistance, quantized, values, raised>>
    /\ UNCHANGED <<solveVars, channelVars, threadVars, planCache>>

NextPlan == PlanSolve \/ PlanEncode \/ PlanOutOfRange

SpecPlan == InitPlan /\ [][NextPlan]_vars

(***************************************************************************)
(* The Topology Service (niswitch.Session) as the code uses it: a set of    *)
(* pairs with an existing path.  Opening and closing a session leaves the   *)
(* relays as they are.                                                      *)
(***************************************************************************)
can_connect(paths, pair) ==
    IF pair \in paths THEN "PATH_EXISTS" ELSE "PATH_AVAILABLE"

Call(fn, pair, state) == [fn |-> fn, pair |-> pair, state |-> state]

\* clearWholeChannel's checkAndDisconnect (lines 143-147) on the pair <<a, b>>:
\* the paths and the log of calls it leaves
checkAndDisconnectAlways(paths, log, pair) ==
    LET state == can_connect(paths, pair)
    IN  [paths |-> paths \ {pair},
         calls |-> log \o <<Call("can_connect", pair, state),
                            Call("disconnect", pair, "none")>>]

checkAndDisconnect(paths, log, pair) ==
    LET state == can_connect(paths, pair)
        asked == Append(log, Call("can_connect", pair, state))
    IN  IF state = "PATH_EXISTS"
        THEN [paths |-> paths \ {pair},
              calls |-> Append(asked, Call("disconnect", pair, "none"))]
        ELSE [paths |-> paths, calls |-> asked]

\* the pairs clearWholeChannel visits, in its order (lines 149-155)
ClearListBankAOnly(bank_a, bank_b) ==
    [k \in 1..9 |-> <<bank_a[1], bank_a[k + 1]>>]
    \o << <<bank_a[1], bank_b[1]>> >>

ClearList(bank_a, bank_b) ==
    [k \in 1..9 |-> <<bank_a[1], bank_a[k + 1]>>]
    \o [k \in 1..9 |-> <<bank_b[1], bank_b[k + 1]>>]
    \o << <<bank_a[1], bank_b[1]>> >>

\* SwitchManager.disconnect (lines 140-149)
SM_disconnect(paths, pair) ==
    LET state == can_connect(paths, pair)
    IN  IF state = "PATH_EXISTS"
        THEN [paths |-> paths \ {pair},
              calls |-> <<Call("can_connect", pair, state),
                          Call("disconnect", pair, "none")>>]
        ELSE [paths |-> paths, calls |-> <<Call("can_connect", pair, state)>>]

\* SwitchManager.connect (lines 130-138)
SM_connect(paths, pair) ==
    LET state == can_connect(paths, pair)
    IN  IF ~(state = "PATH_EXISTS")
        THEN [paths |-> paths \cup {pair},
              calls |-> <<Call("can_connect", pair, state),
                          Call("connect", pair, "none")>>]
        ELSE [paths |-> paths, calls |-> <<Call("can_connect", pair, state)>>]

(***************************************************************************)
(* SpecChannel: the manager of channel 0 over the resistor card, running    *)
(* setResistance and clearWholeChannel one Topology Service call at a time, *)
(* and a SwitchManager over a one-row matrix.  The two managers drive       *)
(* different cards; a SwitchManager method runs between two methods of the  *)
(* ResistanceManager.                                                       *)
(***************************************************************************)
bank_a == getChannels(channel)[1]
bank_b == getChannels(channel)[2]

AllPairs == Range(ClearList(bank_a, bank_b))

MatrixPairs == {<<"r0", c>> : c \in 1..MatrixCols}

\* the requests of SpecChannel: below the range, 0, a point halfway between
\* two steps above 67 ohm, 16000 ohm, and above the range
ChannelInputs == {-1, Ohms(0), Ohms(67) + (SubSteps \div 2), Ohms(MaxOhms), Ohms(MaxOhms) + 1}

RECURSIVE SubsetsUpTo(_, _)
SubsetsUpTo(S, n) ==
    IF n = 0 THEN {{}}
    ELSE LET smaller == SubsetsUpTo(S, n - 1)
         IN  smaller \cup {T \cup {x} : T \in smaller, x \in S}

InitChannel ==
    /\ planCache = [k \in {channel} \X ChannelInputs |->
                        get_banks_to_close_by_name(k[1], k[2])]
    /\ relays \in SubsetsUpTo(AllPairs, MaxInitClosed) \cup {AllPairs}
    /\ matrix = {}
    /\ pcC = "idle" /\ op = "none"
    /\ req = 0 /\ pos = 0 /\ plan = <<>> /\ calls = <<>>
    /\ SolveOff /\ PlanOff /\ ThreadsOff

Idle == pcC \in {"idle", "done"}

\* setResistance is called (line 55) and enters clearWholeChannel (line 59)
SetResistance ==
    /\ Idle
    /\ req' \in ChannelInputs
    /\ op' = "setResistance"
    /\ pcC' = "clearing"
    /\ pos' = 0 /\ plan' = <<>> /\ calls' = <<>>
    /\ UNCHANGED <<relays, matrix>>
    /\ UNCHANGED <<solveVars, planVars, threadVars, planCache>>

\* clearWholeChannel is called on its own (line 138; __del__ calls it too)
ClearWholeChannel ==
    /\ Idle
    /\ op' = "clearWholeChannel"
    /\ pcC' = "clearing"
    /\ pos' = 0 /\ plan' = <<>> /\ calls' = <<>>
    /\ UNCHANGED <<relays, matrix, req>>
    /\ UNCHANGED <<solveVars, planVars, threadVars, planCache>>

\* one checkAndDisconnect of clearWholeChannel (lines 149-155)
ClearStep ==
    /\ pcC = "clearing"
    /\ pos < Len(ClearList(bank_a, bank_b))
    /\ LET s == checkAndDisconnect(relays, calls, ClearList(bank_a, bank_b)[pos + 1])
       IN  /\ relays' = s.paths
           /\ calls' = s.calls
    /\ pos' = pos + 1
    /\ UNCHANGED <<matrix, pcC, op, req, plan>>
    /\ UNCHANGED <<solveVars, planVars, threadVars, planCache>>

\* clearWholeChannel, called on its own, returns
ClearReturn ==
    /\ pcC = "clearing"
    /\ pos = Len(ClearList(bank_a, bank_b))
    /\ op = "clearWholeChannel"
    /\ pcC' = "done"
    /\ UNCHANGED <<relays, matrix, op, req, pos, plan, calls>>
    /\ UNCHANGED <<solveVars, planVars, threadVars, planCache>>

\* setResistance, clearWholeChannel done, calls get_banks_to_close_by_name
\* (line 62)
PlanStep ==
    /\ pcC = "clearing"
    /\ pos = Len(ClearList(bank_a, bank_b))
    /\ op = "setResistance"
    /\ plan' = planCache[<<channel, req>>]
    /\ pos' = 0
    /\ pcC' = "applying"
    /\ UNCHANGED <<relays, matrix, op, req, calls>>
    /\ UNCHANGED <<solveVars, planVars, threadVars, planCache>>

\* one ni_session.connect of setResistance's loop (lines 62-64)
ApplyStep ==
    /\ pcC = "applying"
    /\ pos < Len(plan)
    /\ relays' = relays \cup {plan[pos + 1]}
    /\ calls' = Append(calls, Call("connect", plan[pos + 1], "none"))
    /\ pos' = pos + 1
    /\ UNCHANGED <<matrix, pcC, op, req, plan>>
    /\ UNCHANGED <<solveVars, planVars, threadVars, planCache>>

\* setResistance returns
ApplyReturn ==
    /\ pcC = "applying"
    /\ pos = Len(plan)
    /\ pcC' = "done"
    /\ UNCHANGED <<relays, matrix, op, req, pos, plan, calls>>
    /\ UNCHANGED <<solveVars, planVars, threadVars, planCache>>

\* SwitchManager.connect(row, col)
MatrixConnect ==
    /\ Idle
    /\ \E pair \in MatrixPairs :
         LET s == SM_connect(matrix, pair)
         IN  /\ matrix' = s.paths
             /\ calls' = s.calls
    /\ op' = "connect"
    /\ pcC' = "idle"
    /\ UNCHANGED <<relays, req, pos, plan>>
    /\ UNCHANGED <<solveVars, planVars, threadVars, planCache>>

\* SwitchManager.disconnect(row, col)
MatrixDisconnect ==
    /\ Idle
    /\ \E pair \in MatrixPairs :
         LET s == SM_disconnect(matrix, pair)
         IN  /\ matrix' = s.paths
             /\ calls' = s.calls
    /\ op' = "disconnect"
    /\ pcC' = "idle"
    /\ UNCHANGED <<relays, req, pos, plan>>
    /\ UNCHANGED <<solveVars, planVars, threadVars, planCache>>

NextChannel ==
    \/ SetResistance \/ ClearWholeChannel \/ ClearStep \/ ClearReturn
    \/ PlanStep \/ ApplyStep \/ ApplyReturn
    \/ MatrixConnect \/ MatrixDisconnect

SpecChannel == InitChannel /\ [][NextChannel]_vars

(***************************************************************************)
(* SpecThreads: two threads, each in one call of get_banks_to_close_by_name *)
(* on the manager of channel 0 or of channel 1.  Lines 74-115 work on names *)
(* local to the call (the solver's dict among them, made at line 177) and   *)
(* are one step; every operation on the list self.connections is a step of *)
(* its own, since the interpreter may switch threads between any two.       *)
(***************************************************************************)
Threads == {1, 2}

Managers == {0, 1}

\* the requests of SpecThreads: below the range, and the two steps under
\* 16000 ohm (their lists are short: most values stay in circuit)
ThreadInputs == {-1, Ohms(MaxOhms) - SubSteps, Ohms(MaxOhms) - 2 * SubSteps}

InitThreads ==
    /\ planCache = [k \in Managers \X ThreadInputs |->
                        get_banks_to_close_by_name(k[1], k[2])]
    /\ connections = [m \in Managers |-> <<>>]
    /\ tpc = [t \in Threads |-> "call"]
    /\ tself \in [Threads -> Managers]
    /\ targ \in [Threads -> ThreadInputs]
    /\ ttodo = [t \in Threads |-> <<>>]
    /\ tret = [t \in Threads |-> <<>>]
    /\ SolveOff /\ PlanOff /\ ChannelOff

\* lines 71-115: in range; the pairs to append are fixed by local values
ThreadEnter(t) ==
    /\ tpc[t] = "call"
    /\ InRange(targ[t])
    /\ ttodo' = [ttodo EXCEPT ![t] = planCache[<<tself[t], targ[t]>>]]
    /\ tpc' = [tpc EXCEPT ![t] = "clear"]
    /\ UNCHANGED <<connections, tself, targ, tret>>
    /\ UNCHANGED <<solveVars, planVars, channelVars, planCache>>

\* lines 71-72 and 130-135: out of range
ThreadOutOfRange(t) ==
    /\ tpc[t] = "call"
    /\ ~InRange(targ[t])
    /\ tpc' = [tpc EXCEPT ![t] = "done"]
    /\ UNCHANGED <<connections, tself, targ, ttodo, tret>>
    /\ UNCHANGED <<solveVars, planVars, channelVars, planCache>>

\* lines 117-118: connections = self.connections; connections.clear()
ThreadClear(t) ==
    /\ tpc[t] = "clear"
    /\ connections' = [connections EXCEPT ![tself[t]] = <<>>]
    /\ tpc' = [tpc EXCEPT ![t] = "append"]
    /\ UNCHANGED <<tself, targ, ttodo, tret>>
    /\ UNCHANGED <<solveVars, planVars, channelVars, planCache>>

\* one connections.append (lines 120-127)
ThreadAppend(t) ==
    /\ tpc[t] = "append"
    /\ ttodo[t] # <<>>
    /\ connections' = [connections EXCEPT ![tself[t]] = Append(@, Head(ttodo[t]))]
    /\ ttodo' = [ttodo EXCEPT ![t] = Tail(@)]
    /\ UNCHANGED <<tpc, tself, targ, tret>>
    /\ UNCHANGED <<solveVars, planVars, channelVars, planCache>>

\* line 129: retConnections.extend(connections), and line 135
ThreadExtend(t) ==
    /\ tpc[t] = "append"
    /\ ttodo[t] = <<>>
    /\ tret' = [tret EXCEPT ![t] = @ \o connections[tself[t]]]
    /\ tpc' = [tpc EXCEPT ![t] = "done"]
    /\ UNCHANGED <<connections, tself, targ, ttodo>>
    /\ UNCHANGED <<solveVars, planVars, channelVars, planCache>>

NextThreads ==
    \E t \in Threads :
        \/ ThreadEnter(t) \/ ThreadOutOfRange(t) \/ ThreadClear(t)
        \/ ThreadAppend(t) \/ ThreadExtend(t)

SpecThreads == InitThreads /\ [][NextThreads]_vars

(***************************************************************************)
(* References the properties below compare the code with.                   *)
(***************************************************************************)
Catalog == even_bank \o odd_bank

\* bit k of the 16-bit binary form of q
Bit(q, k) == (q \div Pow2[k]) % 2

\* the catalog values the binary digits of q select
BinaryActive(q) == {Catalog[k + 1] : k \in {j \in 0..15 : Bit(q, j) = 1}}

\* the bypass pair of catalog position k (0..15) on channel c: the value's own
\* bank, and the name at list index 2 + the value's position in its bank
RefBypass(c, k) ==
    LET b == IF k < 8 THEN 2 * c ELSE 2 * c + 1
    IN  << <<b, 0>>, <<b, 2 + (k % 8)>> >>

\* the three pairs of every list: each bank with its engage relay, and the
\* two banks with each other
RefFixed(c) ==
    { << <<2 * c, 0>>, <<2 * c, 1>> >>,
      << <<2 * c + 1, 0>>, <<2 * c + 1, 1>> >>,
      << <<2 * c, 0>>, <<2 * c + 1, 0>> >> }

\* the pairs for a set of active values
RefPlan(c, active) ==
    RefFixed(c) \cup {RefBypass(c, k) : k \in {j \in 0..15 : Catalog[j + 1] \notin active}}

RECURSIVE SumAt(_, _)
SumAt(v, S) ==
    IF S = {} THEN 0
    ELSE LET k == CHOOSE x \in S : TRUE
         IN  v[k] + SumAt(v, S \ {k})

\* how many subsets of v[idx:] (sets of positions) sum to t
NumSubsets(v, idx, t) ==
    Cardinality({S \in SUBSET ((idx + 1)..Len(v)) : SumAt(v, S) = t})

\* the subset built left to right: v[idx] is taken iff some subset of the
\* values after it sums to what then remains
RECURSIVE GreedyRef(_, _, _)
GreedyRef(v, idx, t) ==
    IF idx >= Len(v) THEN <<>>
    ELSE IF NumSubsets(v, idx + 1, t - v[idx + 1]) > 0
         THEN <<v[idx + 1]>> \o GreedyRef(v, idx + 1, t - v[idx + 1])
         ELSE GreedyRef(v, idx + 1, t)

Solved == pcP \in {"solved", "ret"} /\ InRange(resistance)

(***************************************************************************)
(* The properties.                                                          *)
(***************************************************************************)

\* C1: for a request that is an exact multiple of 0.25 ohm in [0, 16000], the
\* solver's values are distinct catalog values, their sum (and the sum the
\* solver reports) is the request, and the call returns a list of pairs.
C1_DecomposeExact ==
    (Solved /\ resistance % SubSteps = 0) =>
        /\ sum(values[2]) * SubSteps = resistance
        /\ values[1] * SubSteps = resistance
        /\ Range(values[2]) \subseteq Range(Catalog)
        /\ Cardinality(Range(values[2])) = Len(values[2])
        /\ (pcP = "ret" => Len(retConnections) >= 3 /\ raised = "none")

C1_Witness ==
    /\ pcP = "ret"
    /\ resistance = Ohms(MaxOhms)
    /\ values[1] = MaxQuarters
    /\ Len(values[2]) = 6

\* C2: for every request in range, the values the solver returns are the
\* catalog values selected by the binary digits of the quantized target
\* (catalog element k is returned iff bit k is 1), in catalog order.
C2_BinaryDecomposition ==
    Solved =>
        /\ Range(values[2]) = BinaryActive(quantized)
        /\ values[2] = SetToSeq(BinaryActive(quantized))

C2_Witness ==
    /\ pcP = "solved"
    /\ resistance = Ohms(67)
    /\ values[2] = <<4, 8, 256>>

\* C3: a request outside [0, 16000] ends the call with a RangeError and never
\* with an empty list; a request inside ends it with a list and no error.
C3_RangeError ==
    pcP = "ret" =>
        /\ (~InRange(resistance) => raised = "RangeError")
        /\ (InRange(resistance) => raised = "none" /\ retConnections # <<>>)

\* C4: the returned list holds the three fixed pairs and, for each of the 16
\* catalog values the solver did not return, the pair of that value's bank
\* and bypass name (list index 2 + position in the bank), each once, and no
\* pair for a returned value.
C4_PlanIsEncoding ==
    (pcP = "ret" /\ InRange(resistance)) =>
        LET active == Range(values[2])
            bypassed == {Catalog[k + 1] : k \in {j \in 0..15 :
                            RefBypass(channel, j) \in Range(retConnections)}}
        IN  /\ Range(retConnections) = RefPlan(channel, active)
            /\ Len(retConnections) = 3 + (16 - Cardinality(active))
            /\ Range(SubSeq(retConnections, 1, 3)) = RefFixed(channel)
            /\ bypassed \cup active = Range(Catalog)
            /\ bypassed \cap active = {}

C4_Witness ==
    /\ pcP = "ret"
    /\ resistance = Ohms(67)
    /\ Len(retConnections) = 16
    /\ << <<0, 0>>, <<0, 2>> >> \in Range(retConnections)
    /\ << <<0, 0>>, <<0, 4>> >> \notin Range(retConnections)
    /\ << <<1, 0>>, <<1, 2>> >> \notin Range(retConnections)

\* what the running method has asked of the Topology Service
Asked(fn) == {c \in Range(calls) : c.fn = fn}

\* C5: in setResistance, when clearWholeChannel is through every pair of the
\* channel is open; while the list is applied only pairs of the list are
\* closed; and a completed setResistance(R), R in range, leaves closed
\* exactly the pairs of the list for R, whatever was closed before.
C5_ClearThenApply ==
    /\ (pcC = "clearing" /\ pos = Len(ClearList(bank_a, bank_b))) => relays = {}
    /\ pcC = "applying" => relays = Range(SubSeq(plan, 1, pos))
    /\ (pcC = "done" /\ op = "setResistance" /\ InRange(req)) =>
           /\ relays = Range(plan)
           /\ relays = RefPlan(channel, BinaryActive(Quantize(req)))

C5_Witness ==
    /\ pcC = "done" /\ op = "setResistance"
    /\ req = Ohms(MaxOhms)
    /\ \E c \in Asked("disconnect") : c.pair \notin relays
    /\ \E c \in Asked("disconnect") : c.pair \in relays

\* the calls a step adds to the log
NewCalls ==
    IF Len(calls') >= Len(calls) /\ SubSeq(calls', 1, Len(calls)) = calls
    THEN (Len(calls) + 1)..Len(calls')
    ELSE 1..Len(calls')

\* C6: every disconnect that clearWholeChannel or SwitchManager.disconnect
\* issues is on a pair whose path exists, and follows a can_connect on that
\* pair that answered PATH_EXISTS.
C6_DisconnectOnlyExisting ==
    [][\A k \in NewCalls :
          calls'[k].fn = "disconnect" =>
              /\ calls'[k].pair \in (IF op' = "disconnect" THEN matrix ELSE relays)
              /\ k > 1
              /\ calls'[k - 1] = Call("can_connect", calls'[k].pair, "PATH_EXISTS")]_vars

C6_Witness ==
    /\ pcC = "done" /\ op = "clearWholeChannel"
    /\ Asked("disconnect") # {}
    /\ \E c \in Asked("can_connect") : c.state = "PATH_AVAILABLE"
    /\ matrix # {}

Nearest(r, q) == 2 * (r - q * SubSteps) <= SubSteps /\ 2 * (q * SubSteps - r) <= SubSteps

Tie(r) == 2 * (r % SubSteps) = SubSteps

\* C7 as stated: the quantized target is the nearest quarter-ohm step, and of
\* two equally near steps the upper one.
C7_HalfUp ==
    Solved =>
        /\ Nearest(resistance, quantized)
        /\ (Tie(resistance) => quantized * SubSteps > resistance)

\* C7 amended: the quantized target is the nearest quarter-ohm step, and of
\* two equally near steps the one that is an even number of quarter ohms.
C7_HalfEven ==
    Solved =>
        /\ Nearest(resistance, quantized)
        /\ (Tie(resistance) => quantized % 2 = 0)

C7_Witness ==
    /\ pcP = "solved"
    /\ Tie(resistance)
    /\ quantized * SubSteps < resistance
    /\ quantized > 0

\* C8: a call that has returned has returned the list it returns when it runs
\* alone, whatever the other thread did meanwhile.
C8_ThreadsIsolated ==
    \A t \in Threads :
        tpc[t] = "done" => tret[t] = planCache[<<tself[t], targ[t]>>]

C10_OutOfRangeClears ==
    (op = "setResistance" /\ ~InRange(req)) =>
        /\ Asked("connect") = {}
        /\ pcC \in {"applying", "done"} =>
               /\ relays = {}
               /\ {c.pair : c \in Asked("can_connect")} = AllPairs

C10_Witness ==
    /\ pcC = "done" /\ op = "setResistance"
    /\ ~InRange(req)
    /\ Cardinality(Asked("disconnect")) > 3

=============================================================================
